---- MODULE Spec2Model ----
(***************************************************************************)
(* The BigQuery span-attribute exporter of otelex: the insert / schema     *)
(* synchronization / single retry engine of bigquerySender.                *)
(*                                                                         *)
(* Two generations of the sender are in the repository:                    *)
(*   - sendRows   (exporter with the SchemaFlexible toggle), and           *)
(*   - insertRows (internal/spattex/bigquery/bigquery_exporter.go), which  *)
(*     has no toggle.                                                      *)
(* Both share updateSchema.  A sender is built from one of them; the       *)
(* configuration of a sender says which.                                   *)
(*                                                                         *)
(* The BigQuery table is the environment: its replies are drawn from the   *)
(* replies the store can give in the state it is in.                       *)
(***************************************************************************)
EXTENDS Integers, Sequences, FiniteSets, TLC

\* Largest number of rows in one exported batch.
MaxRows == 2

VARIABLES
    schema,      \* remote table schema: sequence of [name, type]
    etag,        \* remote table change-token
    cfg,         \* per sender: [variant, flexible]
    pc,          \* per sender: position of the export call
    rows,        \* per sender: the batch of the export call
    replies,     \* per sender: the store's replies to the Puts of the call
    meta,        \* per sender: table.Metadata snapshot [schema, etag]
    metaUpdate,  \* per sender: metaUpdate.Schema
    newFields,   \* per sender: newFields
    altReq,      \* per sender: the request handed to table.Update
    log,         \* per sender: remote calls and waits of the call, in order
    result,      \* per sender: the error the call returned
    stored,      \* per sender: how often the store took the batch of the call
    cancelled,   \* per sender: the ctx of the call is done
    client,      \* per sender: state of the bigquery.Client of the sender
    warned,      \* per sender: fields updateSchema printed a type warning for
    td,          \* per sender: the ptrace.Traces handed to consumeTraces
    builtRows    \* per sender: the rows buildRows returned for td

vars == <<schema, etag, cfg, pc, rows, replies, meta, metaUpdate, newFields,
          altReq, log, result, stored, cancelled, client, warned, td, builtRows>>

Senders == {"s1", "s2"}

-----------------------------------------------------------------------------
(* Errors.  An error is its text, a sequence of words; nil is the empty     *)
(* text.                                                                    *)

Nil == <<>>

NoSuchField == <<"no", "such", "field">>

ErrUnknownField == <<"insert", "failed">> \o NoSuchField
ErrNoTable == <<"no", "such", "table">>
ErrOther == <<"rate", "limit", "exceeded">>
ErrCanceled == <<"context", "canceled">>
ErrPrecondition == <<"precondition", "failed">>
ErrInvalidType == <<"invalid", "field", "type">>
ErrIncompatible == <<"BigQuery", "field", "type", "incompatible">>
ErrConfigRequired == <<"exporter", "configuration", "required">>
ErrNoCredentials == <<"could", "not", "find", "default", "credentials">>
ErrNilLogger == <<"nil", "logger">>

\* strings.Contains(s, sub)
Contains(s, sub) ==
    \E i \in 0..(Len(s) - Len(sub)) : SubSeq(s, i + 1, i + Len(sub)) = sub

\* fmt.Errorf("<prefix>: %w", err)
Wrap(prefix, err) == prefix \o err

-----------------------------------------------------------------------------
(* Rows.  A row maps field names to the Go type of the value stored under   *)
(* them.                                                                    *)

\* buildRows starts every row with "name": span.Name(), a string.
NameRow == [k \in {"name"} |-> "string"]

tablePartitionFieldKey == "ts"

AttrKinds == {"int64", "string", "pcommon.Map"}

AttrRows ==
    UNION { [S -> AttrKinds] : S \in SUBSET {"a"} }

TsRows ==
    UNION { [S -> {"int64"}] : S \in SUBSET {tablePartitionFieldKey} }

Rows == { a @@ t @@ NameRow : a \in AttrRows, t \in TsRows }

Batches == UNION { [1..n -> Rows] : n \in 0..MaxRows }

\* The Go types addKeyValue stores, one for each pcommon value type.
AllKinds ==
    {"bool", "pcommon.ByteSlice", "float64", "int64", "pcommon.Map",
     "pcommon.Slice", "string"}

\* One-row batches whose attributes "a" and "ts" hold a value of any type.
KindBatches ==
    { <<a @@ t @@ NameRow>> :
        a \in [{"a"} -> AllKinds],
        t \in UNION { [S -> AllKinds] : S \in SUBSET {tablePartitionFieldKey} } }

\* One-row batches of a span with an attribute whose key is "type".
TypeBatches ==
    { <<[k \in {"name", "type"} |-> IF k = "name" THEN "string" ELSE kind]>> :
        kind \in AllKinds }

\* Full batches in which every row has the attribute "a".
MixedBatches ==
    { b \in Batches :
        Len(b) = MaxRows /\ \A i \in 1..Len(b) : DOMAIN b[i] = {"name", "a"} }

Names(sch) == { sch[i].name : i \in 1..Len(sch) }

RowKeys(batch) == UNION { DOMAIN batch[i] : i \in 1..Len(batch) }

-----------------------------------------------------------------------------
(* buildRows.  A ptrace.Traces is a sequence of resource spans             *)
(* [attrs, scopes]; scopes is a sequence of scope spans, each a sequence of *)
(* spans [name, attrs].  Attributes are a sequence of [k, v]: k a key, a    *)
(* sequence of characters, and v a pcommon.Value [type, val].  A built row  *)
(* maps a key to the Go value [kind, val] stored under it.                  *)

\* Largest number of resource spans, of scope spans in a resource span, of
\* spans in a scope span, and of attributes of a span.
MaxGroups == 2

MaxScopes == 2

MaxSpans == 2

MaxAttrs == 1

NameKey == <<"n", "a", "m", "e">>

\* strings.Replace(k, ".", "_", -1)
ReplaceFirst(k) ==
    [i \in 1..Len(k) |->
        IF k[i] = "." /\ \A j \in 1..(i - 1) : k[j] # "." THEN "_" ELSE k[i]]

Replace(k) == [i \in 1..Len(k) |-> IF k[i] = "." THEN "_" ELSE k[i]]

\* The pcommon value types addKeyValue has a case for.
ValueTypes == {"Bool", "Bytes", "Double", "Int", "Map", "Slice", "Str"}

\* v.Bool(), v.Bytes(), v.Double(), v.Int(), v.Map(), v.Slice(), v.Str()
GoValue(v) ==
    [kind |-> CASE v.type = "Bool"   -> "bool"
                [] v.type = "Bytes"  -> "pcommon.ByteSlice"
                [] v.type = "Double" -> "float64"
                [] v.type = "Int"    -> "int64"
                [] v.type = "Map"    -> "pcommon.Map"
                [] v.type = "Slice"  -> "pcommon.Slice"
                [] v.type = "Str"    -> "string",
     val  |-> v.val]

\* addKeyValue: the switch has no default, a value of any other type
\* leaves the row as it is.
addKeyValueNoSlice(row, k, v) ==
    IF v.type \in ValueTypes \ {"Slice"}
    THEN (Replace(k) :> GoValue(v)) @@ row
    ELSE row

addKeyValue(row, k, v) ==
    IF v.type \in ValueTypes
    THEN (Replace(k) :> GoValue(v)) @@ row
    ELSE row

\* Attributes().Range(func(k, v) { row.addKeyValue(k, v) })
RECURSIVE Range(_, _)
Range(row, attrs) ==
    IF attrs = <<>> THEN row
    ELSE Range(addKeyValue(row, Head(attrs).k, Head(attrs).v), Tail(attrs))

\* row := bigqueryrow{"name": span.Name()}
NewRow(span) == (NameKey :> [kind |-> "string", val |-> span.name])

\* The row of one span: the resource attributes, then the span attributes.
RowOf(rspan, span) ==
    Range(Range(NewRow(span), rspan.attrs), span.attrs)

RECURSIVE Concat(_)
Concat(ss) == IF ss = <<>> THEN <<>> ELSE Head(ss) \o Concat(Tail(ss))

\* for k := 0; k < spans.Len(); k++
ScopeSpansRowsAtLeastOne(rspan, sspan) ==
    IF sspan = <<>>
    THEN <<RowOf(rspan, [name |-> "", attrs |-> <<>>])>>
    ELSE [k \in 1..Len(sspan) |-> RowOf(rspan, sspan[k])]

ScopeSpansRows(rspan, sspan) ==
    [k \in 1..Len(sspan) |-> RowOf(rspan, sspan[k])]

\* for j := 0; j < sspans.Len(); j++
ResourceSpansRows(rspan) ==
    Concat([j \in 1..Len(rspan.scopes) |->
               ScopeSpansRows(rspan, rspan.scopes[j])])

\* for i := 0; i < rspans.Len(); i++
buildRowsLastGroupFirst(t) ==
    Concat([i \in 1..Len(t) |-> ResourceSpansRows(t[Len(t) + 1 - i])])

buildRows(t) == Concat([i \in 1..Len(t) |-> ResourceSpansRows(t[i])])

\* Values of every pcommon value type, the empty value included.
Values ==
    { [type |-> "Bool", val |-> "true"], [type |-> "Bytes", val |-> "0x01"],
      [type |-> "Double", val |-> "1.5"], [type |-> "Int", val |-> "1"],
      [type |-> "Int", val |-> "2"], [type |-> "Map", val |-> "{}"],
      [type |-> "Slice", val |-> "[]"], [type |-> "Str", val |-> "s"],
      [type |-> "Empty", val |-> ""] }

AttrKeys == { <<"a", ".", "b">>, <<"a", "_", "b">>, <<".", ".">>, NameKey }

SpanAttrs ==
    UNION { [1..n -> [k : AttrKeys, v : Values]] : n \in 0..MaxAttrs }

ResourceAttrs ==
    {<<>>} \cup
    { <<[k |-> key, v |-> val]>> :
        key \in { <<"a", ".", "b">>, NameKey },
        val \in { v \in Values : v.type \in {"Int", "Str", "Empty"} } }

\* Traces of one span, with attributes of every key and value.
AttrTraces ==
    { << [attrs  |-> ra,
          scopes |-> << << [name |-> "n", attrs |-> sa] >> >>] >> :
        ra \in ResourceAttrs, sa \in SpanAttrs }

\* The attributes of the i-th resource of a trace of StructTraces: one
\* attribute whose key and value are the resource's own.
OwnAttrs(i) ==
    << [k |-> <<"r", ".", ToString(i)>>,
        v |-> [type |-> "Str", val |-> "r" \o ToString(i)]] >>

\* Traces of every shape, each span named after its place i.j.k: a scope
\* spans holds no span, one span or MaxSpans spans.
Shapes ==
    UNION { [1..g -> UNION { [1..n -> {0, 1, MaxSpans}] : n \in 0..MaxScopes }] :
              g \in 0..MaxGroups }

StructTraces ==
    { [i \in 1..Len(sh) |->
          [attrs  |-> OwnAttrs(i),
           scopes |-> [j \in 1..Len(sh[i]) |->
                          [k \in 1..sh[i][j] |->
                              [name  |-> ToString(i) \o "." \o ToString(j)
                                           \o "." \o ToString(k),
                               attrs |-> <<>>]]]]] :
        sh \in Shapes }

\* Traces of one span with two attributes whose keys are "a.b" or "a_b".
CollisionTraces ==
    { << [attrs  |-> <<>>,
          scopes |-> << << [name |-> "n", attrs |-> <<a1, a2>>] >> >>] >> :
        a1, a2 \in [k : { <<"a", ".", "b">>, <<"a", "_", "b">> }, v : Values] }

Traces == AttrTraces \cup StructTraces \cup CollisionTraces

-----------------------------------------------------------------------------
(* updateSchema                                                             *)

\* The switch over field.Type that fills knownFieldsTypes.
GoTypeOf(ft) ==
    CASE ft = "BIGNUMERIC" -> "float64"
      [] ft = "BOOLEAN"    -> "bool"
      [] ft = "BYTES"      -> "byte"
      [] ft = "NUMERIC"    -> "int64"
      [] ft = "STRING"     -> "string"
      [] ft = "TIMESTAMP"  -> "int64"
      [] OTHER             -> "incompatible"

\* The loop over meta.Schema returns an error at the first field whose type
\* is none of the six.
SchemaIncompatibleNever(sch) == FALSE

SchemaIncompatible(sch) ==
    \E i \in 1..Len(sch) : GoTypeOf(sch[i].type) = "incompatible"

RECURSIVE KnownFieldsTypes(_)
KnownFieldsTypes(sch) ==
    IF sch = <<>> THEN <<>>
    ELSE LET last == sch[Len(sch)]
         IN  (last.name :> GoTypeOf(last.type))
                 @@ KnownFieldsTypes(SubSeq(sch, 1, Len(sch) - 1))

\* The type of a new field: "ts" is a timestamp, otherwise the type switch
\* over the value; a value of no listed type leaves fieldType at its zero
\* value "".
InferTypeNoTs(key, kind) ==
    CASE kind = "bool"    -> "BOOLEAN"
      [] kind = "uint8"   -> "BYTES"
      [] kind = "float64" -> "BIGNUMERIC"
      [] kind = "int64"   -> "NUMERIC"
      [] kind = "string"  -> "STRING"
      [] OTHER            -> ""

InferType(key, kind) ==
    IF key = "ts" THEN "TIMESTAMP"
    ELSE CASE kind = "bool"    -> "BOOLEAN"
           [] kind = "uint8"   -> "BYTES"
           [] kind = "float64" -> "BIGNUMERIC"
           [] kind = "int64"   -> "NUMERIC"
           [] kind = "string"  -> "STRING"
           [] OTHER            -> ""

\* metaUpdate := TableMetadataToUpdate{Schema: meta.Schema}
InitialUpdateEmpty(m) == <<>>

InitialUpdate(m) == m.schema

\* &bigquery.FieldSchema{Name: key, Type: fieldType}: Required is left at
\* its zero value.
NewFieldRequired(key, fieldType) ==
    [name |-> key, type |-> fieldType, required |-> TRUE]

NewField(key, fieldType) ==
    [name |-> key, type |-> fieldType, required |-> FALSE]

\* The body of the loop for one (key, value) of a row: a known field whose
\* recorded type differs from the type of the value gets a printed warning,
\* an unknown field is appended to metaUpdate.Schema.
StageFieldForgetKnown(st, key, kind) ==
    IF key \in DOMAIN st.types
    THEN IF st.types[key] # kind
         THEN [st EXCEPT !.warn = @ \cup {key}]
         ELSE st
    ELSE [st EXCEPT !.new    = @ \cup {key},
                    !.schema = Append(@, NewField(key, InferType(key, kind)))]

StageFieldSkipUnsupported(st, key, kind) ==
    IF key \in DOMAIN st.types
    THEN IF st.types[key] # kind
         THEN [st EXCEPT !.warn = @ \cup {key}]
         ELSE st
    ELSE IF InferType(key, kind) = ""
    THEN [st EXCEPT !.types = (key :> kind) @@ @]
    ELSE [st EXCEPT !.types  = (key :> kind) @@ @,
                    !.new    = @ \cup {key},
                    !.schema = Append(@, NewField(key, InferType(key, kind)))]

StageFieldRestageMismatch(st, key, kind) ==
    IF key \in DOMAIN st.types /\ st.types[key] = kind
    THEN st
    ELSE [st EXCEPT !.types  = (key :> kind) @@ @,
                    !.new    = @ \cup {key},
                    !.warn   = IF key \in DOMAIN st.types
                               THEN @ \cup {key} ELSE @,
                    !.schema = Append(@, NewField(key, InferType(key, kind)))]

StageField(st, key, kind) ==
    IF key \in DOMAIN st.types
    THEN IF st.types[key] # kind
         THEN [st EXCEPT !.warn = @ \cup {key}]
         ELSE st
    ELSE [st EXCEPT !.types  = (key :> kind) @@ @,
                    !.new    = @ \cup {key},
                    !.schema = Append(@, NewField(key, InferType(key, kind)))]

\* for key, value := range row, in the order the map iteration takes.
RECURSIVE StageRow(_, _, _)
StageRow(st, row, order) ==
    IF order = <<>> THEN st
    ELSE StageRow(StageField(st, Head(order), row[Head(order)]),
                  row, Tail(order))

\* The orders a Go map iteration can take over a set of keys.
Perms(S) ==
    { f \in [1..Cardinality(S) -> S] :
        \A i, j \in 1..Cardinality(S) : i # j => f[i] # f[j] }

\* for _, row := range rows: the outcomes of the pass over the batch from
\* any of the staging states sts, each row taken in any order of its keys.
RECURSIVE StageRows(_, _)
StageRows(sts, batch) ==
    IF batch = <<>> THEN sts
    ELSE StageRows({ StageRow(st, Head(batch), order) :
                        st \in sts, order \in Perms(DOMAIN Head(batch)) },
                   Tail(batch))

\* knownFields and knownFieldsTypes are built afresh from the meta.Schema
\* of this call.
StagedStaleKnown(m, batch) ==
    StageRows({[types  |-> IF m.schema = <<>> THEN <<>>
                           ELSE (m.schema[1].name :> GoTypeOf(m.schema[1].type)),
                new    |-> {},
                warn   |-> {},
                schema |-> InitialUpdate(m)]},
              batch)

Staged(m, batch) ==
    StageRows({[types  |-> KnownFieldsTypes(m.schema),
                new    |-> {},
                warn   |-> {},
                schema |-> InitialUpdate(m)]},
              batch)

\* updateSchema reads the rows and writes none of them.
RowsAfterSyncDropUnsupported(batch) ==
    [i \in 1..Len(batch) |->
        [k \in { x \in DOMAIN batch[i] : InferType(x, batch[i][x]) # "" }
            |-> batch[i][k]]]

RowsAfterSync(batch) == batch

\* if len(newFields) == 0 { no action } else { table.Update }
AfterStagingAlwaysUpdate(new) == "update"

AfterStaging(new) == IF new = {} THEN "sleep" ELSE "update"

\* The etag handed to table.Update.
NoETag == <<>>

UpdateTokenNone(m) == NoETag

UpdateToken(m) == m.etag

-----------------------------------------------------------------------------
(* sendRows / insertRows                                                    *)

Variants == {"sendRows", "insertRows"}

defaultSchemaFlexible == FALSE

defaultProjectID == "msyvr"

defaultDataset == "otelex"

defaultTable == "spattex"

\* The configurations of a sender whose table identifiers are the defaults.
Configs ==
    [variant : Variants, flexible : BOOLEAN, ProjectID : {defaultProjectID},
     Dataset : {defaultDataset}, Table : {defaultTable}]

\* createDefaultConfig
DefaultConfig ==
    [variant |-> "sendRows", flexible |-> defaultSchemaFlexible,
     ProjectID |-> defaultProjectID, Dataset |-> defaultDataset,
     Table |-> defaultTable]

\* The configurations a user can write: each identifier set or left empty.
UserConfigs ==
    [variant : {"sendRows"}, flexible : BOOLEAN,
     ProjectID : {"", defaultProjectID}, Dataset : {"", defaultDataset},
     Table : {"", defaultTable}]

ErrProjectIDRequired == <<"projectID", "required", "for", "BigQuery", "API">>

ErrDatasetRequired == <<"dataset", "required", "for", "BigQuery", "API">>

ErrTableRequired == <<"table", "required", "for", "BigQuery", "API">>

\* Config.Validate
ValidateNoTable(c) ==
    IF c.ProjectID = "" THEN ErrProjectIDRequired
    ELSE IF c.Dataset = "" THEN ErrDatasetRequired
    ELSE Nil

Validate(c) ==
    IF c.ProjectID = "" THEN ErrProjectIDRequired
    ELSE IF c.Dataset = "" THEN ErrDatasetRequired
    ELSE IF c.Table = "" THEN ErrTableRequired
    ELSE Nil

IsUnknownField(err) == err # Nil /\ Contains(err, NoSuchField)

\* sendRows: the schema is updated if the exporter has a flexible schema.
SendRowsSyncsAnyError(c, err) == err # Nil /\ c.flexible

SendRowsSyncs(c, err) == IsUnknownField(err) /\ c.flexible

\* insertRows: no toggle.
InsertRowsSyncs(c, err) == IsUnknownField(err)

\* if err != nil && strings.Contains(err.Error(), "no such field")
ShouldSyncAlways(c, err) == TRUE

ShouldSync(c, err) ==
    IF c.variant = "sendRows" THEN SendRowsSyncs(c, err)
    ELSE InsertRowsSyncs(c, err)

\* return table.Inserter().Put(ctx, rows)
RetryNextPcAgain(err) == IF IsUnknownField(err) THEN "metadata" ELSE "done"

RetryNextPc(err) == "done"

\* if err != nil { return err } after updateSchema.
SyncErrorNextPcIgnored == "sleep"

SyncErrorNextPc == "done"

\* What sendRows returns for the error of the second Put.
RetryResultNil(err) == Nil

RetryResult(err) == err

\* newBigQuerySender: defer client.Close() runs when the constructor
\* returns, before the sender is used.
NewSenderClient == "closed"

\* The position after updateSchema returned nil.
AfterSyncNoWait == "put2"

AfterSync == "sleep"

-----------------------------------------------------------------------------
(* The store.                                                               *)

\* Replies of Inserter.Put: the batch is accepted only when every field of
\* it is in the schema; an unknown-field rejection is possible for any
\* non-empty batch (a schema change takes time to register); any call may
\* fail for another reason.
PutReplies(batch) ==
    {ErrNoTable}
      \cup (IF batch # <<>> THEN {ErrUnknownField} ELSE {})
      \cup (IF RowKeys(batch) \subseteq Names(schema) THEN {Nil} ELSE {})

MetadataErrors == {ErrNoTable}

\* A remote call made with a ctx that is done fails with the ctx error.
CtxReplies(s, rs) == IF cancelled[s] THEN {ErrCanceled} ELSE rs

\* Reply of Table.Update: the etag, when given, has to be the current one,
\* and every field needs a type.
UpdateRejections(req) ==
    {ErrOther}
      \cup (IF req.etag # NoETag /\ req.etag # etag THEN {ErrPrecondition} ELSE {})
      \cup (IF \E i \in 1..Len(req.schema) : req.schema[i].type = ""
            THEN {ErrInvalidType} ELSE {})

UpdateAccepted(req) == UpdateRejections(req) = {ErrOther}

NextETag(e) == Append(e, "v")

InitSchemas ==
    { <<[name |-> "name", type |-> "STRING", required |-> TRUE]>>,
      <<[name |-> "name", type |-> "STRING", required |-> TRUE],
        [name |-> "a", type |-> "NUMERIC", required |-> FALSE]>>,
      <<[name |-> "name", type |-> "STRING", required |-> TRUE],
        [name |-> "old", type |-> "INTEGER", required |-> FALSE]>> }

-----------------------------------------------------------------------------
NoMeta == [schema |-> <<>>, etag |-> NoETag]

Idle(s) ==
    /\ pc' = [pc EXCEPT ![s] = "idle"]
    /\ rows' = [rows EXCEPT ![s] = <<>>]
    /\ replies' = [replies EXCEPT ![s] = <<>>]
    /\ meta' = [meta EXCEPT ![s] = NoMeta]
    /\ metaUpdate' = [metaUpdate EXCEPT ![s] = <<>>]
    /\ newFields' = [newFields EXCEPT ![s] = {}]
    /\ altReq' = [altReq EXCEPT ![s] = NoMeta]
    /\ log' = [log EXCEPT ![s] = <<>>]
    /\ result' = [result EXCEPT ![s] = Nil]
    /\ stored' = [stored EXCEPT ![s] = 0]
    /\ cancelled' = [cancelled EXCEPT ![s] = FALSE]
    /\ warned' = [warned EXCEPT ![s] = {}]

InitWith(callers, configs) ==
    /\ schema \in InitSchemas
    /\ etag = <<"v">>
    /\ cfg \in { c \in [Senders -> Configs] :
                   \A s \in Senders :
                     IF s \in callers THEN c[s] \in configs
                     ELSE c[s] = DefaultConfig }
    /\ pc = [s \in Senders |-> "idle"]
    /\ rows = [s \in Senders |-> <<>>]
    /\ replies = [s \in Senders |-> <<>>]
    /\ meta = [s \in Senders |-> NoMeta]
    /\ metaUpdate = [s \in Senders |-> <<>>]
    /\ newFields = [s \in Senders |-> {}]
    /\ altReq = [s \in Senders |-> NoMeta]
    /\ log = [s \in Senders |-> <<>>]
    /\ result = [s \in Senders |-> Nil]
    /\ stored = [s \in Senders |-> 0]
    /\ cancelled = [s \in Senders |-> FALSE]
    /\ client = [s \in Senders |-> NewSenderClient]
    /\ warned = [s \in Senders |-> {}]
    /\ td = [s \in Senders |-> <<>>]
    /\ builtRows = [s \in Senders |-> <<>>]

\* The rows the pusher of a sender builds from the trace it is handed:
\* consumeTraces calls buildRows, whose rows start as {"name": span.Name()};
\* sendRows(ctx, td) of the insertRows sender calls buildTraceRows, whose
\* rows start as {"name": span.Name(), "type": "trace"}; an attribute whose
\* key is "type" is written afterwards and replaces the literal.
TraceRow(row) ==
    [k \in DOMAIN row \cup {"type"} |->
        IF k \in DOMAIN row THEN row[k] ELSE "string"]

BuiltBatch(c, b) ==
    IF c.variant = "insertRows"
    THEN [i \in 1..Len(b) |-> TraceRow(b[i])]
    ELSE b

\* The exporter helper hands a trace to the pusher of the sender, which
\* builds the batch.
StartExport(s, batches) ==
    /\ pc[s] = "idle"
    /\ \E b \in batches : rows' = [rows EXCEPT ![s] = BuiltBatch(cfg[s], b)]
    /\ pc' = [pc EXCEPT ![s] = "put1"]
    /\ UNCHANGED <<schema, etag, cfg, replies, meta, metaUpdate, newFields,
                   altReq, log, result, stored, cancelled, client, warned, td, builtRows>>

\* err := table.Inserter().Put(ctx, rows), and the branch on err.
Put1(s) ==
    /\ pc[s] = "put1"
    /\ \E r \in CtxReplies(s, PutReplies(rows[s])) :
         /\ replies' = [replies EXCEPT ![s] = Append(@, r)]
         /\ stored' = [stored EXCEPT ![s] = IF r = Nil THEN @ + 1 ELSE @]
         /\ IF ShouldSync(cfg[s], r)
            THEN /\ pc' = [pc EXCEPT ![s] = "metadata"]
                 /\ UNCHANGED result
            ELSE /\ pc' = [pc EXCEPT ![s] = "done"]
                 /\ result' = [result EXCEPT ![s] = r]
    /\ log' = [log EXCEPT ![s] = Append(@, "insert")]
    /\ UNCHANGED <<schema, etag, cfg, rows, meta, metaUpdate, newFields, altReq,
                   cancelled, client, warned, td, builtRows>>

\* updateSchema up to the decision whether to call table.Update.
Metadata(s) ==
    /\ pc[s] = "metadata"
    /\ log' = [log EXCEPT ![s] = Append(@, "describe")]
    /\ \/ \E e \in CtxReplies(s, MetadataErrors) :
            /\ pc' = [pc EXCEPT ![s] = SyncErrorNextPc]
            /\ result' = [result EXCEPT ![s] = Wrap(<<"table", "metadata">>, e)]
            /\ UNCHANGED <<meta, metaUpdate, newFields, rows, warned, td, builtRows>>
       \/ /\ ~cancelled[s]
          /\ SchemaIncompatible(schema)
          /\ meta' = [meta EXCEPT ![s] = [schema |-> schema, etag |-> etag]]
          /\ pc' = [pc EXCEPT ![s] = SyncErrorNextPc]
          /\ result' = [result EXCEPT ![s] = ErrIncompatible]
          /\ UNCHANGED <<metaUpdate, newFields, rows, warned, td, builtRows>>
       \/ /\ ~cancelled[s]
          /\ ~SchemaIncompatible(schema)
          /\ LET m == [schema |-> schema, etag |-> etag]
             IN  \E st \in Staged(m, rows[s]) :
                       /\ meta' = [meta EXCEPT ![s] = m]
                       /\ metaUpdate' = [metaUpdate EXCEPT ![s] = st.schema]
                       /\ newFields' = [newFields EXCEPT ![s] = st.new]
                       /\ warned' = [warned EXCEPT ![s] = st.warn]
                       /\ pc' = [pc EXCEPT ![s] =
                                   IF AfterStaging(st.new) = "update"
                                   THEN "update" ELSE AfterSync]
          /\ rows' = [rows EXCEPT ![s] = RowsAfterSync(@)]
          /\ UNCHANGED result
    /\ UNCHANGED <<schema, etag, cfg, replies, altReq, stored, cancelled, client,
                   td, builtRows>>

\* _, err = table.Update(ctx, metaUpdate, meta.ETag)
Update(s) ==
    /\ pc[s] = "update"
    /\ log' = [log EXCEPT ![s] = Append(@, "alter")]
    /\ LET req == [schema |-> metaUpdate[s], etag |-> UpdateToken(meta[s])]
       IN  /\ altReq' = [altReq EXCEPT ![s] = req]
           /\ \/ /\ ~cancelled[s]
                 /\ UpdateAccepted(req)
                 /\ schema' = req.schema
                 /\ etag' = NextETag(etag)
                 /\ pc' = [pc EXCEPT ![s] = AfterSync]
                 /\ UNCHANGED result
              \/ \E e \in CtxReplies(s, UpdateRejections(req)) :
                   /\ pc' = [pc EXCEPT ![s] = SyncErrorNextPc]
                   /\ result' = [result EXCEPT ![s] =
                         Wrap(<<"unable", "to", "update", "schema">>, e)]
                   /\ UNCHANGED <<schema, etag>>
    /\ UNCHANGED <<cfg, rows, replies, meta, metaUpdate, newFields, stored,
                   cancelled, client, warned, td, builtRows>>

\* time.Sleep(wait)
Sleep(s) ==
    /\ pc[s] = "sleep"
    /\ pc' = [pc EXCEPT ![s] = "put2"]
    /\ log' = [log EXCEPT ![s] = Append(@, "wait")]
    /\ UNCHANGED <<schema, etag, cfg, rows, replies, meta, metaUpdate, newFields,
                   altReq, result, stored, cancelled, client, warned, td, builtRows>>

\* return table.Inserter().Put(ctx, rows)
Put2(s) ==
    /\ pc[s] = "put2"
    /\ \E r \in CtxReplies(s, PutReplies(rows[s])) :
         /\ replies' = [replies EXCEPT ![s] = Append(@, r)]
         /\ stored' = [stored EXCEPT ![s] = IF r = Nil THEN @ + 1 ELSE @]
         /\ result' = [result EXCEPT ![s] = RetryResult(r)]
         /\ pc' = [pc EXCEPT ![s] = RetryNextPc(r)]
    /\ log' = [log EXCEPT ![s] = Append(@, "insert")]
    /\ UNCHANGED <<schema, etag, cfg, rows, meta, metaUpdate, newFields, altReq,
                   cancelled, client, warned, td, builtRows>>

\* consumeTraces returns err; the rows are discarded.
Return(s) ==
    /\ pc[s] = "done"
    /\ Idle(s)
    /\ UNCHANGED <<schema, etag, cfg, client, td, builtRows>>

\* The ctx of the call is cancelled by the caller, or its timeout expires.
Cancel(s) ==
    /\ pc[s] \notin {"idle", "done"}
    /\ ~cancelled[s]
    /\ cancelled' = [cancelled EXCEPT ![s] = TRUE]
    /\ UNCHANGED <<schema, etag, cfg, pc, rows, replies, meta, metaUpdate,
                   newFields, altReq, log, result, stored, client, warned, td, builtRows>>

Step(s) ==
    \/ Put1(s)
    \/ Metadata(s)
    \/ Update(s)
    \/ Sleep(s)
    \/ Put2(s)
    \/ Return(s)

\* One sender, of either generation and either setting of the toggle,
\* exporting any batch.
Init == InitWith({"s1"}, Configs)

Next == StartExport("s1", Batches) \/ Step("s1")

Spec == Init /\ [][Next]_vars

\* The sender of sendRows when every remote call and the settling wait
\* return: sendRows is straight-line code, so a call that can take its next
\* step takes it.
InitLive == InitWith({"s1"}, { c \in Configs : c.variant = "sendRows" })

SpecLive == InitLive /\ [][Next]_vars /\ WF_vars(Step("s1"))

\* Two senders with a flexible schema exporting to the same table.
ConcBatches == { b \in Batches : Len(b) = 1 }

InitConc ==
    InitWith(Senders, { c \in Configs : c.flexible /\ c.variant = "sendRows" })

NextConc == \E s \in Senders : StartExport(s, ConcBatches) \/ Step(s)

SpecConc == InitConc /\ [][NextConc]_vars

FlexibleConfigs == { c \in Configs : c.flexible }

\* One flexible sender exporting one-row batches whose values are of any
\* of the types addKeyValue stores.
InitKinds == InitWith({"s1"}, FlexibleConfigs)

NextKinds == StartExport("s1", KindBatches) \/ Step("s1")

SpecKinds == InitKinds /\ [][NextKinds]_vars

\* One flexible sender exporting those batches, batches with an attribute
\* "type", and batches in which a field has values of different types in
\* different rows.
NextMixed ==
    \/ StartExport("s1", KindBatches)
    \/ StartExport("s1", TypeBatches)
    \/ StartExport("s1", MixedBatches)
    \/ Step("s1")

SpecMixed == InitKinds /\ [][NextMixed]_vars

\* One flexible sender whose calls the caller may cancel at any moment.
InitCancel == InitWith({"s1"}, FlexibleConfigs)

NextCancel == StartExport("s1", ConcBatches) \/ Step("s1") \/ Cancel("s1")

SpecCancel == InitCancel /\ [][NextCancel]_vars

\* Config.Validate, called on a configuration for which no exporter has
\* been created yet.
ValidateConfig(s) ==
    /\ pc[s] = "config"
    /\ result' = [result EXCEPT ![s] = Validate(cfg[s])]
    /\ pc' = [pc EXCEPT ![s] =
                IF Validate(cfg[s]) = Nil THEN "validated" ELSE "rejected"]
    /\ UNCHANGED <<schema, etag, cfg, rows, replies, meta, metaUpdate, newFields,
                   altReq, log, stored, cancelled, client, warned, td, builtRows>>

\* The positions in which a configuration has no exporter yet: not
\* validated, accepted by Validate, rejected by Validate.
Unbuilt == {"config", "validated", "rejected"}

\* CreateBigQueryExporterFunc: newRowsExporter, newBigQuerySender.  None of
\* them calls Validate or reads an identifier: whatever Validate said, or
\* whether it was called, the exporter is built unless the configuration
\* handed over is nil, bigquery.NewClient fails or exporterhelper.NewTraces
\* fails.
CreateExporter(s) ==
    /\ pc[s] \in Unbuilt
    /\ \/ \* if config == nil
          /\ pc' = [pc EXCEPT ![s] = "failed"]
          /\ result' = [result EXCEPT ![s] = ErrConfigRequired]
          /\ UNCHANGED client
       \/ \* bigquery.NewClient returns an error
          /\ pc' = [pc EXCEPT ![s] = "failed"]
          /\ result' = [result EXCEPT ![s] =
                Wrap(<<"failed", "to", "create", "traces", "exporter">>,
                     Wrap(<<"create", "bigquery", "client">>, ErrNoCredentials))]
          /\ UNCHANGED client
       \/ \* exporterhelper.NewTraces returns an error: the sender was built
          /\ pc' = [pc EXCEPT ![s] = "failed"]
          /\ result' = [result EXCEPT ![s] = ErrNilLogger]
          /\ client' = [client EXCEPT ![s] = NewSenderClient]
       \/ \* return exporter, nil
          /\ pc' = [pc EXCEPT ![s] = "idle"]
          /\ result' = [result EXCEPT ![s] = Nil]
          /\ client' = [client EXCEPT ![s] = NewSenderClient]
    /\ UNCHANGED <<schema, etag, cfg, rows, replies, meta, metaUpdate, newFields,
                   altReq, log, stored, cancelled, warned, td, builtRows>>

\* One sender from its configuration on: validated or not, created,
\* exporting.
InitValidate ==
    /\ schema \in InitSchemas
    /\ etag = <<"v">>
    /\ cfg \in { c \in [Senders -> UserConfigs \cup {DefaultConfig}] :
                   c["s2"] = DefaultConfig }
    /\ pc = [s \in Senders |-> IF s = "s1" THEN "config" ELSE "idle"]
    /\ rows = [s \in Senders |-> <<>>]
    /\ replies = [s \in Senders |-> <<>>]
    /\ meta = [s \in Senders |-> NoMeta]
    /\ metaUpdate = [s \in Senders |-> <<>>]
    /\ newFields = [s \in Senders |-> {}]
    /\ altReq = [s \in Senders |-> NoMeta]
    /\ log = [s \in Senders |-> <<>>]
    /\ result = [s \in Senders |-> Nil]
    /\ stored = [s \in Senders |-> 0]
    /\ cancelled = [s \in Senders |-> FALSE]
    /\ client = [s \in Senders |-> IF s = "s1" THEN "none" ELSE NewSenderClient]
    /\ warned = [s \in Senders |-> {}]
    /\ td = [s \in Senders |-> <<>>]
    /\ builtRows = [s \in Senders |-> <<>>]

NextValidate ==
    \/ ValidateConfig("s1")
    \/ CreateExporter("s1")
    \/ StartExport("s1", ConcBatches)
    \/ Step("s1")

SpecValidate == InitValidate /\ [][NextValidate]_vars

\* consumeTraces: rows := buildRows(td).
BuildRows(s) ==
    /\ pc[s] = "idle"
    /\ builtRows' = [builtRows EXCEPT ![s] = buildRows(td[s])]
    /\ pc' = [pc EXCEPT ![s] = "built"]
    /\ UNCHANGED <<schema, etag, cfg, rows, replies, meta, metaUpdate, newFields,
                   altReq, log, result, stored, cancelled, client, warned, td>>

\* One sender handed any trace.
InitBuild ==
    /\ schema = <<[name |-> "name", type |-> "STRING", required |-> TRUE]>>
    /\ etag = <<"v">>
    /\ cfg = [s \in Senders |-> DefaultConfig]
    /\ pc = [s \in Senders |-> "idle"]
    /\ rows = [s \in Senders |-> <<>>]
    /\ replies = [s \in Senders |-> <<>>]
    /\ meta = [s \in Senders |-> NoMeta]
    /\ metaUpdate = [s \in Senders |-> <<>>]
    /\ newFields = [s \in Senders |-> {}]
    /\ altReq = [s \in Senders |-> NoMeta]
    /\ log = [s \in Senders |-> <<>>]
    /\ result = [s \in Senders |-> Nil]
    /\ stored = [s \in Senders |-> 0]
    /\ cancelled = [s \in Senders |-> FALSE]
    /\ client = [s \in Senders |-> NewSenderClient]
    /\ warned = [s \in Senders |-> {}]
    /\ \E t \in Traces : td = [s \in Senders |-> IF s = "s1" THEN t ELSE <<>>]
    /\ builtRows = [s \in Senders |-> <<>>]

NextBuild == BuildRows("s1")

SpecBuild == InitBuild /\ [][NextBuild]_vars

-----------------------------------------------------------------------------
(* Properties.                                                              *)

Count(l, e) == Cardinality({ i \in 1..Len(l) : l[i] = e })

IsPrefix(a, b) == Len(a) <= Len(b) /\ SubSeq(b, 1, Len(a)) = a

HasPrefix(err, prefix) == IsPrefix(prefix, err)

\* The first Put of the call of s failed with an unknown-field error.
FirstUnknownField(s) ==
    Len(replies[s]) >= 1 /\ Contains(replies[s][1], NoSuchField)

\* updateSchema returned an error to the call of s.
SyncFailed(s) ==
    \/ HasPrefix(result[s], <<"table", "metadata">>)
    \/ HasPrefix(result[s], <<"unable", "to", "update", "schema">>)
    \/ result[s] = ErrIncompatible

\* updateSchema returned nil to the call of s.
SyncSucceeded(s) == pc[s] \in {"sleep", "put2"} \/ Count(log[s], "wait") >= 1

FullRetry == <<"insert", "describe", "alter", "wait", "insert">>

NoOpRetry == <<"insert", "describe", "wait", "insert">>

\* C1 as the spec states it: a flexible export whose first insert is
\* rejected for an unknown field always ends having issued one alteration
\* request, waited, and resubmitted once, in that order.
C1_ExactlyOneAlterationAndResubmission ==
    \A s \in Senders :
        (pc[s] = "done" /\ cfg[s].flexible /\ FirstUnknownField(s))
            => log[s] = FullRetry

\* C1, amended: a flexible export whose first insert is rejected for an
\* unknown field runs the synchronizer exactly once and issues at most one
\* alteration request, exactly when new fields were staged; when the
\* synchronizer succeeds the call ends (alteration, if any) -> wait ->
\* one resubmission, and when it fails there is no wait and no resubmission.
C1_OneSyncThenWaitThenResubmission ==
    \A s \in Senders :
        (cfg[s].flexible /\ FirstUnknownField(s)) =>
            /\ \/ IsPrefix(log[s], FullRetry)
               \/ IsPrefix(log[s], NoOpRetry)
            /\ pc[s] = "done" =>
                 /\ Count(log[s], "describe") = 1
                 /\ Count(log[s], "alter") = 1 <=> newFields[s] # {}
                 /\ IF SyncFailed(s)
                    THEN log[s] \in { <<"insert", "describe">>,
                                      <<"insert", "describe", "alter">> }
                    ELSE log[s] \in { FullRetry, NoOpRetry }

C1_Witness ==
    \E s \in Senders :
        /\ pc[s] = "done" /\ cfg[s].flexible /\ FirstUnknownField(s)
        /\ log[s] = FullRetry
        /\ result[s] = Nil

\* C2: in one export call the batch is handed to Put at most twice, the
\* synchronizer runs at most once and at most one alteration request is
\* issued, whatever the store answers.
C2_HardRetryCap ==
    \A s \in Senders :
        /\ Count(log[s], "insert") <= 2
        /\ Count(log[s], "describe") <= 1
        /\ Count(log[s], "alter") <= 1

C2_Witness ==
    \E s \in Senders :
        /\ pc[s] = "done"
        /\ Count(log[s], "insert") = 2
        /\ Count(log[s], "alter") = 1
        /\ Contains(replies[s][2], NoSuchField)

\* C3: with the flexible-schema toggle off, an export whose insert is
\* rejected for an unknown field returns that error at once: no describe,
\* no alteration, no wait, no resubmission.
C3_InflexibleReturnsImmediately ==
    \A s \in Senders :
        (~cfg[s].flexible /\ FirstUnknownField(s)) =>
            /\ pc[s] = "done"
            /\ log[s] = <<"insert">>
            /\ result[s] = replies[s][1]

\* C4: an insert error whose text does not contain "no such field" is
\* returned at once and unchanged, with the toggle on or off: no describe,
\* no alteration, no wait, no resubmission.
C4_OtherErrorReturnedUnchanged ==
    \A s \in Senders :
        (/\ Len(replies[s]) >= 1
         /\ replies[s][1] # Nil
         /\ ~Contains(replies[s][1], NoSuchField)) =>
            /\ pc[s] = "done"
            /\ log[s] = <<"insert">>
            /\ result[s] = replies[s][1]

C4_Witness ==
    \E s \in Senders :
        /\ cfg[s].flexible
        /\ pc[s] = "done"
        /\ replies[s] = <<ErrNoTable>>
        /\ result[s] = ErrNoTable

\* C5: the store's reply to the resubmission is what the export returns; a
\* second unknown-field rejection ends the call without another
\* synchronization, wait or insert.
C5_ResubmissionOutcomeIsFinal ==
    \A s \in Senders :
        Len(replies[s]) = 2 =>
            /\ pc[s] = "done"
            /\ result[s] = replies[s][2]
            /\ log[s] \in { FullRetry, NoOpRetry }

C5_Witness ==
    \E s \in Senders :
        /\ pc[s] = "done"
        /\ Len(replies[s]) = 2
        /\ Contains(replies[s][2], NoSuchField)
        /\ result[s] = replies[s][2]

\* A step in which sender s gets the store's answer to table.Update.
UpdateStep(s) == pc[s] = "update" /\ pc'[s] # "update"

\* C6: an alteration computed from a snapshot that another alteration has
\* superseded is rejected on its etag and the rejection is returned as an
\* error; an alteration never drops or retypes a field of the schema it
\* meets.
C6_StaleAlterationRejected ==
    [][\A s \in Senders :
         UpdateStep(s) =>
            /\ meta[s].etag # etag =>
                 /\ schema' = schema
                 /\ etag' = etag
                 /\ pc'[s] = "done"
                 /\ HasPrefix(result'[s], <<"unable", "to", "update", "schema">>)
            /\ \A i \in 1..Len(schema) :
                 \E j \in 1..Len(schema') : schema'[j] = schema[i]]_vars

C6_Witness ==
    \E s, t \in Senders :
        /\ s # t
        /\ pc[s] = "done"
        /\ altReq[s].etag # NoETag
        /\ altReq[s].etag # etag
        /\ result[s] = Wrap(<<"unable", "to", "update", "schema">>, ErrPrecondition)
        /\ altReq[t].etag = meta[s].etag
        /\ schema = altReq[t].schema

\* req is old followed by one field for each name of new.
IsExtension(old, req, new) ==
    /\ Len(req) = Len(old) + Cardinality(new)
    /\ SubSeq(req, 1, Len(old)) = old
    /\ { req[i].name : i \in (Len(old) + 1)..Len(req) } = new

\* C7: a synchronization that staged at least one new field issues exactly
\* one alteration request, carrying the fetched schema unchanged followed by
\* the staged fields, guarded by the etag its own Metadata call returned; a
\* synchronization that staged nothing issues none.
C7_OneGuardedAdditiveRequest ==
    \A s \in Senders :
        /\ Count(log[s], "alter") <= 1
        /\ Count(log[s], "alter") = 1 =>
             /\ newFields[s] # {}
             /\ altReq[s].etag = meta[s].etag
             /\ altReq[s].etag # NoETag
             /\ IsExtension(meta[s].schema, altReq[s].schema, newFields[s])
        /\ SyncSucceeded(s) =>
             (newFields[s] # {} <=> Count(log[s], "alter") = 1)

C7_Witness ==
    \E s \in Senders :
        /\ Count(log[s], "alter") = 1
        /\ Cardinality(newFields[s]) = 2
        /\ Len(meta[s].schema) >= 1
        /\ SyncSucceeded(s)

\* C8: schema evolution is append-only: in every step every (name, type)
\* pair of the remote schema stays in it, and no name of it is given
\* another type.
C8_AppendOnly ==
    [][\A i \in 1..Len(schema) :
         /\ \E j \in 1..Len(schema') : schema'[j] = schema[i]
         /\ \A j \in 1..Len(schema') :
              schema'[j].name = schema[i].name
                  => schema'[j].type = schema[i].type]_vars

C8_Witness ==
    /\ Len(etag) = 3
    /\ Len(schema) = 3
    /\ \A s \in Senders : Count(log[s], "alter") = 1 /\ SyncSucceeded(s)

UniqueNames(sch) ==
    \A i, j \in 1..Len(sch) : i # j => sch[i].name # sch[j].name

\* C9: field names stay unique: the remote schema and every alteration
\* request, staged or issued, name each field once.
C9_UniqueFieldNames ==
    /\ UniqueNames(schema)
    /\ \A s \in Senders :
         /\ UniqueNames(metaUpdate[s])
         /\ UniqueNames(altReq[s].schema)

C9_Witness ==
    \E s \in Senders :
        /\ Count(log[s], "alter") = 1
        /\ Len(rows[s]) = 2
        /\ "a" \in newFields[s]
        /\ "a" \in DOMAIN rows[s][1]
        /\ "a" \in DOMAIN rows[s][2]
        /\ rows[s][1]["a"] # rows[s][2]["a"]
        /\ "name" \in Names(meta[s].schema)

\* C10: after updateSchema returned nil, every field name of every row of
\* the batch is in the schema it leaves behind: the fetched schema when
\* nothing was staged, else the schema of the accepted alteration request.
C10_BatchFieldsInSchema ==
    \A s \in Senders :
        SyncSucceeded(s) =>
            RowKeys(rows[s]) \subseteq
                Names(IF newFields[s] = {} THEN meta[s].schema
                      ELSE altReq[s].schema)

C10_Witness ==
    \E s \in Senders :
        /\ pc[s] = "sleep"
        /\ Cardinality(newFields[s]) = 2
        /\ Len(rows[s]) = 2
        /\ schema = altReq[s].schema

\* Every field name of the batch of s is in the schema its Metadata call
\* fetched.
FetchedAll(s) ==
    meta[s] # NoMeta /\ RowKeys(rows[s]) \subseteq Names(meta[s].schema)

\* C11 as the spec states it: when every field name of the batch is in the
\* fetched schema, the synchronization issues no alteration request, leaves
\* schema and change-token as they are, and returns success.
C11_NoOpSyncReturnsSuccess ==
    \A s \in Senders :
        FetchedAll(s) =>
            /\ Count(log[s], "alter") = 0
            /\ schema = meta[s].schema
            /\ etag = meta[s].etag
            /\ SyncSucceeded(s)

\* C11, amended: when every field name of the batch is in the fetched
\* schema, the synchronization issues no alteration request and leaves
\* schema and change-token as they are; it returns success when every
\* fetched field has one of the six supported types, and otherwise the
\* incompatible-type error.
C11_NoOpSync ==
    \A s \in Senders :
        FetchedAll(s) =>
            /\ Count(log[s], "alter") = 0
            /\ newFields[s] = {}
            /\ schema = meta[s].schema
            /\ etag = meta[s].etag
            /\ IF SchemaIncompatible(meta[s].schema)
               THEN pc[s] = "done" /\ result[s] = ErrIncompatible
               ELSE SyncSucceeded(s)

C11_Witness ==
    \E s \in Senders :
        /\ FetchedAll(s)
        /\ pc[s] = "put2"
        /\ Len(rows[s]) = 2
        /\ "a" \in RowKeys(rows[s])

\* The Metadata call of the call of s failed.
DescribeFailed(s) == Count(log[s], "describe") = 1 /\ meta[s] = NoMeta

\* C12: when table.Metadata fails, the export returns the wrapped metadata
\* error, and makes no alteration request, no wait and no resubmission.
C12_DescribeFailureIsTerminal ==
    \A s \in Senders :
        DescribeFailed(s) =>
            /\ pc[s] = "done"
            /\ log[s] = <<"insert", "describe">>
            /\ HasPrefix(result[s], <<"table", "metadata">>)
            /\ result[s] # <<"table", "metadata">>

C12_Witness ==
    \E s \in Senders :
        /\ DescribeFailed(s)
        /\ cfg[s].flexible
        /\ result[s] = Wrap(<<"table", "metadata">>, ErrNoTable)

\* C13: when the store rejects the alteration request, the export returns
\* the wrapped rejection, the remote schema is as the store had it, and the
\* call makes no further alteration request, wait or insert.
C13_RejectedAlterationIsTerminal ==
    [][\A s \in Senders :
         /\ (UpdateStep(s) /\ etag' = etag) =>
               /\ schema' = schema
               /\ pc'[s] = "done"
               /\ HasPrefix(result'[s], <<"unable", "to", "update", "schema">>)
               /\ log'[s] = <<"insert", "describe", "alter">>
         /\ pc[s] = "done" => log'[s] \in {log[s], <<>>}]_vars

C13_Witness ==
    \E s \in Senders :
        /\ pc[s] = "done"
        /\ log[s] = <<"insert", "describe", "alter">>
        /\ result[s] = Wrap(<<"unable", "to", "update", "schema">>, ErrInvalidType)
        /\ schema = meta[s].schema

\* C14: a call whose ctx is cancelled while it is in the settling wait
\* leaves the wait by ending, not by completing the wait and going on to
\* the resubmission.
C14_CancelAbortsWait ==
    [][\A s \in Senders :
         (cancelled[s] /\ pc[s] = "sleep" /\ pc'[s] # "sleep") =>
            /\ pc'[s] = "done"
            /\ Count(log'[s], "wait") = 0]_vars

\* C15: with a store that takes a batch exactly when it replies nil, one
\* export call stores its batch at most once: once when it returns nil,
\* not at all when it returns an error.
C15_StoredAtMostOnce ==
    \A s \in Senders :
        /\ stored[s] <= 1
        /\ pc[s] = "done" => (result[s] = Nil <=> stored[s] = 1)

C15_Witness ==
    \E s \in Senders :
        /\ pc[s] = "done"
        /\ Len(replies[s]) = 2
        /\ stored[s] = 1
        /\ result[s] = Nil

\* C16: from the first submission to the resubmission the batch stays as
\* it is: no step of the call adds, removes or changes a row or a value.
C16_BatchUnchanged ==
    [][\A s \in Senders :
         pc[s] \notin {"idle", "done"} => rows'[s] = rows[s]]_vars

C16_Witness ==
    \E s \in Senders :
        /\ Len(replies[s]) = 2
        /\ Count(log[s], "alter") = 1
        /\ Len(rows[s]) = 2
        /\ newFields[s] = {"a", "ts"}

\* C17: nothing of the schema is kept from one call to the next: the
\* snapshot a call works on is the store's schema and etag at its own
\* Metadata call, its new fields are the batch fields missing from that
\* snapshot, and its alteration request carries that snapshot and etag.
C17_NoSchemaCache ==
    [][\A s \in Senders :
         /\ (pc[s] = "metadata" /\ meta'[s] # NoMeta) =>
               /\ meta'[s] = [schema |-> schema, etag |-> etag]
               /\ ~SchemaIncompatible(schema) =>
                    /\ newFields'[s] = RowKeys(rows[s]) \ Names(schema)
                    /\ IsPrefix(schema, metaUpdate'[s])
         /\ UpdateStep(s) =>
               /\ Count(log[s], "describe") = 1
               /\ altReq'[s].etag = meta[s].etag
               /\ IsPrefix(meta[s].schema, altReq'[s].schema)]_vars

C17_Witness ==
    \E s \in Senders :
        /\ Len(etag) = 3
        /\ Count(log[s], "alter") = 1
        /\ altReq[s].schema = schema
        /\ Len(meta[s].schema) = 2

\* C18: whenever an export call has issued a remote call, the client of
\* the sender is open.
C18_ClientOpenOnRemoteCall ==
    \A s \in Senders : log[s] # <<>> => client[s] = "open"

\* The store type the spec gives for each kind of value.
ExpectedType(kind) ==
    CASE kind = "bool"              -> "BOOLEAN"
      [] kind = "float64"           -> "BIGNUMERIC"
      [] kind = "int64"             -> "NUMERIC"
      [] kind = "string"            -> "STRING"
      [] kind = "pcommon.ByteSlice" -> "BYTES"
      [] OTHER                      -> ""

\* The fields of metaUpdate that the call of s staged.
StagedAt(s) == (Len(meta[s].schema) + 1)..Len(metaUpdate[s])

\* C19: a new field other than "ts" whose value is a bool, float64, int64,
\* string or byte sequence is staged with the type of that kind.
C19_TypeFromKind ==
    \A s \in Senders :
        \A i \in StagedAt(s) :
            LET f == metaUpdate[s][i]
                k == rows[s][1][f.name]
            IN  (f.name # "ts" /\ ExpectedType(k) # "")
                    => f.type = ExpectedType(k)

\* C20: a new field named "ts" is staged with type TIMESTAMP, whatever the
\* type of its value.
C20_TsIsTimestamp ==
    \A s \in Senders :
        \A i \in StagedAt(s) :
            metaUpdate[s][i].name = tablePartitionFieldKey
                => metaUpdate[s][i].type = "TIMESTAMP"

C20_Witness ==
    \E s \in Senders :
        /\ tablePartitionFieldKey \in newFields[s]
        /\ rows[s][1][tablePartitionFieldKey] = "pcommon.Map"
        /\ \E i \in StagedAt(s) :
             metaUpdate[s][i] = NewField("ts", "TIMESTAMP")

\* The fields the alteration request of s adds to the snapshot it was
\* built from.
AddedAt(s) == (Len(meta[s].schema) + 1)..Len(altReq[s].schema)

\* C21: every field the synchronizer stages, and every field an alteration
\* request adds, is nullable: Required is false.
C21_NewFieldsNullable ==
    \A s \in Senders :
        /\ \A i \in StagedAt(s) : ~metaUpdate[s][i].required
        /\ \A i \in AddedAt(s) : ~altReq[s].schema[i].required

C21_Witness ==
    \E s \in Senders :
        /\ Count(log[s], "alter") = 1
        /\ altReq[s].schema = schema
        /\ Len(schema) = Len(meta[s].schema) + 2
        /\ schema[1].required
        /\ ~schema[Len(schema)].required

\* The number of fields of sch named k.
FieldCount(sch, k) == Cardinality({ i \in 1..Len(sch) : sch[i].name = k })

\* C22: a value whose type differs from the type recorded for a known field
\* (of the remote schema, or staged earlier in the batch) only gets a
\* warning: updateSchema returns no error for it, the field is neither
\* changed nor staged again, and a call whose synchronization did not fail
\* for another reason waits and resubmits.
C22_MismatchOnlyWarns ==
    [][\A s \in Senders :
         /\ (pc[s] = "metadata" /\ warned'[s] # {}) =>
               /\ result'[s] = Nil
               /\ pc'[s] = IF newFields'[s] = {} THEN "sleep" ELSE "update"
               /\ newFields'[s] = RowKeys(rows[s]) \ Names(schema)
               /\ IsPrefix(schema, metaUpdate'[s])
               /\ \A k \in warned'[s] : FieldCount(metaUpdate'[s], k) = 1
         /\ (warned'[s] # {} /\ pc'[s] = "done" /\ ~SyncFailed(s)') =>
               log'[s] \in {FullRetry, NoOpRetry}]_vars

C22_Witness ==
    \E s \in Senders :
        /\ warned[s] = {"a"}
        /\ "a" \in newFields[s]
        /\ pc[s] = "done"
        /\ log[s] = FullRetry
        /\ result[s] = Nil

\* The Go types of the values for which the type switch of updateSchema
\* is meant to have no case: ordered list and ordered map.
UnsupportedKinds == {"pcommon.Slice", "pcommon.Map"}

\* The batch of s has a field that is not in the fetched schema and holds
\* a list or a map in some row.
UnsupportedNew(s) ==
    /\ meta[s] # NoMeta
    /\ \E i \in 1..Len(rows[s]) :
         \E k \in DOMAIN rows[s][i] \ Names(meta[s].schema) :
             rows[s][i][k] \in UnsupportedKinds

\* The batch of s has a field that is not in the fetched schema, is not
\* "ts", and holds a list or a map in the first row that has it.
UnsupportedNewFirst(s) ==
    /\ meta[s] # NoMeta
    /\ \E i \in 1..Len(rows[s]) :
         \E k \in DOMAIN rows[s][i]
                 \ (Names(meta[s].schema) \cup {tablePartitionFieldKey}) :
             /\ rows[s][i][k] \in UnsupportedKinds
             /\ \A j \in 1..(i - 1) : k \notin DOMAIN rows[s][j]

AnyEmpty(c) == c.ProjectID = "" \/ c.Dataset = "" \/ c.Table = ""

\* The error Validate returns for c: that of the first identifier, in the
\* order project, dataset, table, that is empty.
RejectionOf(c) ==
    IF c.ProjectID = "" THEN ErrProjectIDRequired
    ELSE IF c.Dataset = "" THEN ErrDatasetRequired
    ELSE ErrTableRequired

Built(s) == pc[s] = "built"

\* The places <<i, j, k>> of the spans of a trace: span k of scope spans j
\* of resource spans i.
LeafIndex(t) ==
    { l \in (1..MaxGroups) \X (1..MaxScopes) \X (1..MaxSpans) :
        /\ l[1] <= Len(t)
        /\ l[2] <= Len(t[l[1]].scopes)
        /\ l[3] <= Len(t[l[1]].scopes[l[2]]) }

\* Traversal order: resource spans, then scope spans, then spans.
Before(m, l) ==
    \/ m[1] < l[1]
    \/ m[1] = l[1] /\ m[2] < l[2]
    \/ m[1] = l[1] /\ m[2] = l[2] /\ m[3] < l[3]

Pos(t, l) == 1 + Cardinality({ m \in LeafIndex(t) : Before(m, l) })

Leaf(t, l) == t[l[1]].scopes[l[2]][l[3]]

\* The row buildRows returned for the span at place l.
BuiltRow(s, l) == builtRows[s][Pos(td[s], l)]

\* f is the key k with every "." replaced by "_".
IsSanitized(f, k) ==
    /\ Len(f) = Len(k)
    /\ \A i \in 1..Len(k) : f[i] = IF k[i] = "." THEN "_" ELSE k[i]

\* The field names the attributes attrs are written under.
FieldNames(attrs) ==
    { f \in { Replace(attrs[i].k) : i \in 1..Len(attrs) } :
        \E i \in 1..Len(attrs) : IsSanitized(f, attrs[i].k) }

HasNoNameAttr(attrs) == NameKey \notin FieldNames(attrs)

\* C25: buildRows returns one row for each span, and the row at position i
\* is the row of the i-th span in traversal order (resource spans, then
\* scope spans, then spans).
C25_OneRowPerLeafInOrder ==
    \A s \in Senders :
        Built(s) =>
            /\ Len(builtRows[s]) = Cardinality(LeafIndex(td[s]))
            /\ \A l \in LeafIndex(td[s]) :
                 /\ BuiltRow(s, l) = RowOf(td[s][l[1]], Leaf(td[s], l))
                 /\ (HasNoNameAttr(td[s][l[1]].attrs)
                       /\ HasNoNameAttr(Leaf(td[s], l).attrs))
                      => BuiltRow(s, l)[NameKey].val = Leaf(td[s], l).name

C25_Witness ==
    \E s \in Senders :
        /\ Built(s)
        /\ Len(builtRows[s]) = MaxGroups * MaxScopes * MaxSpans
        /\ builtRows[s][MaxSpans + 1][NameKey].val = "1.2.1"
        /\ builtRows[s][MaxScopes * MaxSpans + 1][NameKey].val = "2.1.1"

\* C26: whatever attributes a span and its resource carry, the "name" field
\* of its row is the name of the span.
C26_NameIsLeafName ==
    \A s \in Senders :
        Built(s) =>
            \A l \in LeafIndex(td[s]) :
                BuiltRow(s, l)[NameKey] =
                    [kind |-> "string", val |-> Leaf(td[s], l).name]

\* C27: when a resource attribute and a span attribute are written under
\* the same field name, the row holds the value of a span attribute of
\* that name.
C27_LeafValueWins ==
    \A s \in Senders :
        Built(s) =>
            \A l \in LeafIndex(td[s]) :
                LET res  == td[s][l[1]].attrs
                    leaf == Leaf(td[s], l).attrs
                IN  \A f \in FieldNames(res) \cap FieldNames(leaf) :
                        /\ f \in DOMAIN BuiltRow(s, l)
                        /\ \E j \in 1..Len(leaf) :
                             /\ IsSanitized(f, leaf[j].k)
                             /\ BuiltRow(s, l)[f].val = leaf[j].v.val
                             /\ leaf[j].v.type \in ValueTypes
                                  => BuiltRow(s, l)[f] = GoValue(leaf[j].v)

\* C28: a row carries every attribute of the resource of its span, and
\* nothing but the name, the attributes of that resource and the attributes
\* of its span: no attribute of another resource.
C28_OwnResourceAttributesOnly ==
    \A s \in Senders :
        Built(s) =>
            \A l \in LeafIndex(td[s]) :
                LET res  == td[s][l[1]].attrs
                    leaf == Leaf(td[s], l).attrs
                    row  == BuiltRow(s, l)
                IN  /\ FieldNames(res) \subseteq DOMAIN row
                    /\ DOMAIN row \subseteq
                         {NameKey} \cup FieldNames(res) \cup FieldNames(leaf)
                    /\ \A f \in FieldNames(res) \ (FieldNames(leaf) \cup {NameKey}) :
                         \E i \in 1..Len(res) :
                             /\ IsSanitized(f, res[i].k)
                             /\ row[f].val = res[i].v.val

\* C29: no attribute is dropped without notice: when buildRows returns,
\* every attribute of a span and of its resource has a field in the row,
\* under its sanitized name.
C29_NoAttributeDropped ==
    \A s \in Senders :
        Built(s) =>
            \A l \in LeafIndex(td[s]) :
                FieldNames(td[s][l[1]].attrs) \cup FieldNames(Leaf(td[s], l).attrs)
                    \subseteq DOMAIN BuiltRow(s, l)

\* The Go type the spec gives for each of the seven value types.
KindOfType(t) ==
    CASE t = "Bool"   -> "bool"
      [] t = "Int"    -> "int64"
      [] t = "Double" -> "float64"
      [] t = "Str"    -> "string"
      [] t = "Bytes"  -> "pcommon.ByteSlice"
      [] t = "Slice"  -> "pcommon.Slice"
      [] t = "Map"    -> "pcommon.Map"
      [] OTHER        -> ""

\* C30: addKeyValue is total on the seven value types: the last attribute a
\* span carries, when its value is of one of them, is in the row under its
\* sanitized key, with the Go type of its value type and the value itself;
\* and each attribute written adds at most one field.
C30_NormalizerTotal ==
    \A s \in Senders :
        Built(s) =>
            \A l \in LeafIndex(td[s]) :
                LET res  == td[s][l[1]].attrs
                    leaf == Leaf(td[s], l).attrs
                    row  == BuiltRow(s, l)
                    last == leaf[Len(leaf)]
                IN  /\ Cardinality(DOMAIN row) <= 1 + Len(res) + Len(leaf)
                    /\ (leaf # <<>> /\ last.v.type \in ValueTypes) =>
                         \E f \in DOMAIN row :
                             /\ IsSanitized(f, last.k)
                             /\ row[f] = [kind |-> KindOfType(last.v.type),
                                          val  |-> last.v.val]

C30_Witness ==
    \E s \in Senders :
        /\ Built(s)
        /\ LeafIndex(td[s]) = {<<1, 1, 1>>}
        /\ td[s][1].attrs = <<>>
        /\ Leaf(td[s], <<1, 1, 1>>).attrs =
              <<[k |-> <<".", ".">>, v |-> [type |-> "Slice", val |-> "[]"]]>>
        /\ builtRows[s][1] =
              (<<"_", "_">> :> [kind |-> "pcommon.Slice", val |-> "[]"])
                  @@ (NameKey :> [kind |-> "string", val |-> "n"])

\* The keys of the attributes of the resources and spans of a trace.
RECURSIVE KeysOf(_)
KeysOf(attrs) ==
    IF attrs = <<>> THEN {} ELSE {Head(attrs).k} \cup KeysOf(Tail(attrs))

TraceKeys(t) ==
    UNION { KeysOf(t[l[1]].attrs) \cup KeysOf(Leaf(t, l).attrs) :
              l \in LeafIndex(t) }

HasDot(k) == \E i \in 1..Len(k) : k[i] = "."

\* C31: sanitizing replaces every "." by "_": the result has no ".", a key
\* without "." is returned as it is, sanitizing twice gives what sanitizing
\* once gives, and no field of a built row has a "." in its name.
C31_SanitizeIdempotent ==
    \A s \in Senders :
        Built(s) =>
            /\ \A k \in TraceKeys(td[s]) :
                 /\ IsSanitized(Replace(k), k)
                 /\ ~HasDot(Replace(k))
                 /\ Replace(Replace(k)) = Replace(k)
                 /\ ~HasDot(k) => Replace(k) = k
            /\ \A i \in 1..Len(builtRows[s]) :
                 \A f \in DOMAIN builtRows[s][i] : ~HasDot(f) /\ Replace(f) = f

C31_Witness ==
    \E s \in Senders :
        /\ Built(s)
        /\ <<".", ".">> \in TraceKeys(td[s])
        /\ <<"_", "_">> \in DOMAIN builtRows[s][1]

\* C32: a trace without any span (no resource spans, resource spans without
\* scope spans, scope spans without spans) is built into no row.
C32_NoLeafNoRow ==
    \A s \in Senders :
        (Built(s) /\ LeafIndex(td[s]) = {}) => builtRows[s] = <<>>

C32_Witness ==
    \E s \in Senders :
        /\ Built(s)
        /\ Len(td[s]) = 2
        /\ td[s][1].scopes = <<>>
        /\ td[s][2].scopes = << <<>>, <<>> >>
        /\ builtRows[s] = <<>>

\* C37: when two attributes of a span have different keys with the same
\* sanitized name, the row has one field of that name, holding the value of
\* the attribute written later.
C37_LaterWriteWins ==
    \A s \in Senders :
        Built(s) =>
            \A l \in LeafIndex(td[s]) :
                LET leaf == Leaf(td[s], l).attrs
                    row  == BuiltRow(s, l)
                IN  \A i, j \in 1..Len(leaf) :
                        (/\ i < j
                         /\ j = Len(leaf)
                         /\ leaf[i].k # leaf[j].k
                         /\ IsSanitized(Replace(leaf[i].k), leaf[j].k)) =>
                            /\ Replace(leaf[j].k) \in DOMAIN row
                            /\ row[Replace(leaf[j].k)].val = leaf[j].v.val
                            /\ row[Replace(leaf[j].k)].kind
                                   = KindOfType(leaf[j].v.type)

\* The alteration request of the call of s was accepted by the store.
AlterAccepted(s) ==
    /\ Count(log[s], "alter") = 1
    /\ pc[s] \in {"sleep", "put2", "done"}
    /\ ~SyncFailed(s)

\* C33: once the alteration request of a call was accepted, no later step
\* of the call changes the remote schema or its change-token; when the
\* resubmission fails, or is made with a cancelled ctx, the call returns an
\* error and the schema is the one the request sent, new fields included.
C33_AcceptedAlterationNotRolledBack ==
    [][\A s \in Senders :
         AlterAccepted(s) =>
            /\ schema' = schema
            /\ etag' = etag
            /\ (pc[s] = "put2" /\ pc'[s] # "put2"
                  /\ (cancelled[s] \/ replies'[s][Len(replies'[s])] # Nil)) =>
                  /\ pc'[s] = "done"
                  /\ result'[s] # Nil
                  /\ schema' = altReq[s].schema
                  /\ newFields[s] \subseteq Names(schema')]_vars

C33_Witness ==
    \E s \in Senders :
        /\ pc[s] = "done"
        /\ cancelled[s]
        /\ log[s] = FullRetry
        /\ result[s] = ErrCanceled
        /\ schema = altReq[s].schema
        /\ Len(schema) > Len(meta[s].schema)
        /\ "a" \in Names(schema) \ Names(meta[s].schema)

\* The synchronization of the call of s fetched a schema of supported
\* types and staged no field.
NoOpSynced(s) ==
    /\ FirstUnknownField(s)
    /\ meta[s] # NoMeta
    /\ ~SchemaIncompatible(meta[s].schema)
    /\ newFields[s] = {}

\* C34: a call whose first insert failed for an unknown field and whose
\* synchronization staged no field goes on to the settling wait and then to
\* one resubmission, whose reply it returns; it makes no alteration request,
\* and the remote schema stays as fetched.
C34_NoOpSyncStillWaitsAndResubmits ==
    \A s \in Senders :
        NoOpSynced(s) =>
            /\ pc[s] \in {"sleep", "put2", "done"}
            /\ IsPrefix(<<"insert", "describe">>, log[s])
            /\ IsPrefix(log[s], NoOpRetry)
            /\ pc[s] = "put2" => Count(log[s], "wait") = 1
            /\ pc[s] = "done" =>
                 /\ log[s] = NoOpRetry
                 /\ Len(replies[s]) = 2
                 /\ result[s] = replies[s][2]
            /\ altReq[s] = NoMeta
            /\ schema = meta[s].schema

C34_Witness ==
    \E s \in Senders :
        /\ NoOpSynced(s)
        /\ pc[s] = "done"
        /\ log[s] = NoOpRetry
        /\ Count(log[s], "alter") = 0
        /\ replies[s][2] = Nil
        /\ result[s] = Nil

\* The first row of the batch that has field k.
FirstRowWith(batch, k) ==
    CHOOSE i \in 1..Len(batch) :
        /\ k \in DOMAIN batch[i]
        /\ \A j \in 1..(i - 1) : k \notin DOMAIN batch[j]

\* C35: a new field of the batch is staged exactly once, however many rows
\* have it, with the type of its value in the first row that has it; a
\* later row whose value for it has another type gets the warning and
\* nothing else, and a later row whose value has the same type gets nothing.
C35_StagedOnceFromFirstOccurrence ==
    \A s \in Senders :
        /\ newFields[s] # {} =>
              Len(metaUpdate[s]) = Len(meta[s].schema) + Cardinality(newFields[s])
        /\ \A k \in newFields[s] :
             LET i == FirstRowWith(rows[s], k)
             IN  /\ FieldCount(metaUpdate[s], k) = 1
                 /\ \E n \in StagedAt(s) :
                       metaUpdate[s][n] =
                           NewField(k, InferType(k, rows[s][i][k]))
                 /\ k \in warned[s] <=>
                       \E j \in (i + 1)..Len(rows[s]) :
                           /\ k \in DOMAIN rows[s][j]
                           /\ rows[s][j][k] # rows[s][i][k]

C35_Witness ==
    \E s \in Senders :
        /\ Len(rows[s]) = 2
        /\ "a" \in DOMAIN rows[s][1] /\ rows[s][1]["a"] = "int64"
        /\ "a" \in DOMAIN rows[s][2] /\ rows[s][2]["a"] = "string"
        /\ newFields[s] = {"a"}
        /\ warned[s] = {"a"}
        /\ metaUpdate[s][Len(metaUpdate[s])] = NewField("a", "NUMERIC")
        /\ pc[s] = "update"

\* The number of (row, field) pairs of a batch.
RECURSIVE PairCount(_)
PairCount(batch) ==
    IF batch = <<>> THEN 0
    ELSE Cardinality(DOMAIN Head(batch)) + PairCount(Tail(batch))

\* Every order the pass of updateSchema can take over a row of the batch
\* lists each field of the row once.
VisitsEachPairOnce(batch) ==
    \A i \in 1..Len(batch) :
        \A order \in Perms(DOMAIN batch[i]) :
            /\ Len(order) = Cardinality(DOMAIN batch[i])
            /\ \A k \in DOMAIN batch[i] :
                 Cardinality({ n \in 1..Len(order) : order[n] = k }) = 1

\* C36: when every remote call and the wait return, a call that was
\* started returns; it has then made at most two inserts, one describe and
\* one alteration request, and the pass its synchronizer makes from the
\* fetched schema takes each (row, field) of the batch once, so that it
\* stages at most that many fields.
C36_ExportTerminates ==
    /\ \A s \in {"s1"} : (pc[s] = "put1") ~> (pc[s] = "done")
    /\ [](\A s \in {"s1"} :
            /\ Count(log[s], "insert") <= 2
            /\ Count(log[s], "describe") <= 1
            /\ Count(log[s], "alter") <= 1
            /\ Len(log[s]) <= Len(FullRetry)
            /\ pc[s] = "metadata" => VisitsEachPairOnce(rows[s])
            /\ Len(metaUpdate[s]) > 0 =>
                  Len(metaUpdate[s]) - Len(meta[s].schema) <= PairCount(rows[s]))

C36_Witness ==
    \E s \in Senders :
        /\ pc[s] = "done"
        /\ Len(rows[s]) = 2
        /\ PairCount(rows[s]) = 5
        /\ log[s] = FullRetry
        /\ Cardinality(newFields[s]) = 2

\* C38: a call whose first insert succeeded is over with that one remote
\* call and returns nil, whatever the toggle: no describe, no alteration
\* request, no wait, no second insert.
C38_FirstInsertSuccessIsOneCall ==
    \A s \in Senders :
        (Len(replies[s]) >= 1 /\ replies[s][1] = Nil) =>
            /\ pc[s] = "done"
            /\ log[s] = <<"insert">>
            /\ replies[s] = <<Nil>>
            /\ result[s] = Nil
            /\ meta[s] = NoMeta
            /\ altReq[s] = NoMeta

C38_Witness ==
    \E s \in Senders :
        /\ cfg[s].flexible
        /\ Len(rows[s]) = 2
        /\ replies[s] = <<Nil>>
        /\ pc[s] = "done"
        /\ log[s] = <<"insert">>
        /\ result[s] = Nil

\* The call of s resubmitted after a successful synchronization in
\* flexible mode, and the resubmission succeeded.
RetriedInFlexibleMode(s) ==
    /\ FirstUnknownField(s)
    /\ cfg[s].flexible
    /\ SyncSucceeded(s)
    /\ Len(replies[s]) = 2
    /\ replies[s][2] = Nil

\* The errors of the steps of the call of s that failed.
StepErrors(s) ==
    { replies[s][i] : i \in 1..Len(replies[s]) }
        \cup { Wrap(<<"table", "metadata">>, e) : e \in MetadataErrors }
        \cup { Wrap(<<"unable", "to", "update", "schema">>, e) :
                 e \in {ErrOther, ErrPrecondition, ErrInvalidType} }
        \cup { ErrIncompatible }

\* C39: a call that is over returned nil exactly when the last insert it
\* submitted succeeded, which is exactly when the first insert succeeded, or
\* the first insert failed for an unknown field in flexible mode, the
\* synchronization succeeded and the resubmission succeeded; otherwise it
\* returned the error of the step that failed.
C39_ResultCharacterization ==
    \A s \in Senders :
        pc[s] = "done" =>
            /\ result[s] = Nil <=> replies[s][Len(replies[s])] = Nil
            /\ result[s] = Nil <=>
                  (replies[s][1] = Nil \/ RetriedInFlexibleMode(s))
            /\ result[s] # Nil => result[s] \in StepErrors(s) \ {Nil}

\* The field types for which the loop over meta.Schema has a case.
SupportedTypes ==
    {"BOOLEAN", "NUMERIC", "BIGNUMERIC", "STRING", "BYTES", "TIMESTAMP"}

\* The schema the call of s fetched has a field of another type.
FetchedUnsupported(s) ==
    /\ meta[s] # NoMeta
    /\ \E i \in 1..Len(meta[s].schema) :
          meta[s].schema[i].type \notin SupportedTypes

\* C40: when the fetched schema has a field whose type is none of the six,
\* the call ends with the incompatible-type error of updateSchema, having
\* staged nothing: no alteration request, no wait, no resubmission, and the
\* remote schema as fetched, even when the new fields of the batch all have
\* a type.
C40_UnsupportedRemoteTypeBlocksSync ==
    \A s \in Senders :
        FetchedUnsupported(s) =>
            /\ pc[s] = "done"
            /\ result[s] = ErrIncompatible
            /\ log[s] = <<"insert", "describe">>
            /\ metaUpdate[s] = <<>>
            /\ newFields[s] = {}
            /\ altReq[s] = NoMeta
            /\ schema = meta[s].schema

C40_Witness ==
    \E s \in Senders :
        /\ FetchedUnsupported(s)
        /\ \E k \in RowKeys(rows[s]) \ Names(meta[s].schema) :
             \A i \in 1..Len(rows[s]) :
                 k \in DOMAIN rows[s][i] => InferType(k, rows[s][i][k]) # ""
        /\ result[s] = ErrIncompatible
        /\ pc[s] = "done"

====
